---- MODULE Spec2Model ----
(***************************************************************************)
(* Atom identity and registry subsystem of atomic-workflow-system:         *)
(* tools/atoms/id_utils.py, tools/atoms/atom_validator.py and the registry *)
(* part of tools/atoms/process2atoms.py.                                   *)
(*                                                                         *)
(* Strings the code inspects character by character (identifiers, keys,    *)
(* titles) are sequences of one-character strings.  A JSON or YAML value   *)
(* is a record tagged with its Python type: [t |-> "str", v |-> chars],    *)
(* [t |-> "int", v |-> n], [t |-> "none"], [t |-> "list", v |-> seq],      *)
(* [t |-> "dict", m |-> members].                                          *)
(***************************************************************************)
EXTENDS Integers, Sequences, FiniteSets, TLC

(***************************************************************************)
(* Bounds of the model.                                                    *)
(***************************************************************************)
NProcs == 2
MaxRuns == 2
MaxLines == 3
MaxBatch == 2

(***************************************************************************)
(* Program constants.                                                      *)
(***************************************************************************)
LockAttempts == 100
UlidLen == 26
SeqWidth == 3
SlugMaxLen == 64
FileSlugMaxLen == 48

(***************************************************************************)
(* Characters.                                                             *)
(***************************************************************************)
Digit == {"0", "1", "2", "3", "4", "5", "6", "7", "8", "9"}
Lower == {"a", "b", "c", "d", "e", "f", "g", "h", "i", "j", "k", "l", "m",
          "n", "o", "p", "q", "r", "s", "t", "u", "v", "w", "x", "y", "z"}
Upper == {"A", "B", "C", "D", "E", "F", "G", "H", "I", "J", "K", "L", "M",
          "N", "O", "P", "Q", "R", "S", "T", "U", "V", "W", "X", "Y", "Z"}
LowerSeq == <<"a", "b", "c", "d", "e", "f", "g", "h", "i", "j", "k", "l", "m",
              "n", "o", "p", "q", "r", "s", "t", "u", "v", "w", "x", "y", "z">>
UpperSeq == <<"A", "B", "C", "D", "E", "F", "G", "H", "I", "J", "K", "L", "M",
              "N", "O", "P", "Q", "R", "S", "T", "U", "V", "W", "X", "Y", "Z">>
DigitSeq == <<"0", "1", "2", "3", "4", "5", "6", "7", "8", "9">>
\* Python's str.strip() and the regex class \s, restricted to the characters used
Whitespace == {" ", "\t", "\n"}
\* [a-z0-9-]
KeyChar == Lower \cup Digit \cup {"-"}
\* [0-9A-HJKMNP-TV-Z]
CrockfordSeq == <<"0", "1", "2", "3", "4", "5", "6", "7", "8", "9",
                  "A", "B", "C", "D", "E", "F", "G", "H", "J", "K",
                  "M", "N", "P", "Q", "R", "S", "T", "V", "W", "X",
                  "Y", "Z">>
Crockford == {CrockfordSeq[i] : i \in 1..Len(CrockfordSeq)}

AllIn(s, class) == \A i \in 1..Len(s) : s[i] \in class
Drop(s, n) == SubSeq(s, n + 1, Len(s))
Take(s, n) == SubSeq(s, 1, n)
IndexOf(c, s) == CHOOSE i \in 1..Len(s) : s[i] = c
ToLower(c) == IF c \in Upper THEN LowerSeq[IndexOf(c, UpperSeq)] ELSE c
ToUpper(c) == IF c \in Lower THEN UpperSeq[IndexOf(c, LowerSeq)] ELSE c

\* Python's `$`: the end of the string, or just before a newline that ends it
ChopFinalNewline(s) ==
    IF Len(s) > 0 /\ s[Len(s)] = "\n" THEN Take(s, Len(s) - 1) ELSE s
DollarForms(s) == {s, ChopFinalNewline(s)}

RECURSIVE SplitOn(_, _)
\* s.split(sep): the segments between the occurrences of the character sep
SplitOn(s, sep) ==
    IF \A i \in 1..Len(s) : s[i] # sep THEN <<s>>
    ELSE LET i == CHOOSE j \in 1..Len(s) :
                     s[j] = sep /\ \A k \in 1..(j - 1) : s[k] # sep
         IN  <<Take(s, i - 1)>> \o SplitOn(Drop(s, i), sep)

RECURSIVE JoinWith(_, _)
JoinWith(segs, sep) ==
    IF Len(segs) = 0 THEN <<>>
    ELSE IF Len(segs) = 1 THEN segs[1]
    ELSE segs[1] \o <<sep>> \o JoinWith(Tail(segs), sep)

(***************************************************************************)
(* id_utils.py                                                             *)
(***************************************************************************)
\* ^[0-9A-HJKMNP-TV-Z]{26}$
MatchUlidRegex(s) ==
    \E b \in DollarForms(s) : Len(b) = UlidLen /\ AllIn(b, Crockford)

validate_ulid(uid) == MatchUlidRegex(uid)

\* [a-z0-9-]+
MatchSegment(s) == Len(s) > 0 /\ AllIn(s, KeyChar)
\* v[0-9]+
MatchVersion(s) == Len(s) > 1 /\ s[1] = "v" /\ AllIn(Drop(s, 1), Digit)
\* (-[a-z0-9-]+)?
MatchVariantOpt(s) ==
    Len(s) = 0 \/ (Len(s) > 1 /\ s[1] = "-" /\ AllIn(Drop(s, 1), KeyChar))
\* (-r[0-9]+)?
MatchRevisionOpt(s) ==
    Len(s) = 0 \/ (Len(s) > 2 /\ s[1] = "-" /\ s[2] = "r" /\ AllIn(Drop(s, 2), Digit))
\* [0-9]{3}(-[a-z0-9-]+)?(-r[0-9]+)?
MatchSequence(s) ==
    /\ Len(s) >= SeqWidth
    /\ AllIn(Take(s, SeqWidth), Digit)
    /\ \E i \in SeqWidth..Len(s) :
          /\ MatchVariantOpt(SubSeq(s, SeqWidth + 1, i))
          /\ MatchRevisionOpt(Drop(s, i))
\* ^[a-z0-9-]+/[a-z0-9-]+/v[0-9]+/[a-z0-9-]+/[a-z0-9-]+/[0-9]{3}(-[a-z0-9-]+)?(-r[0-9]+)?$
\* (no class of the pattern holds "/", so its five slashes are the string's)
MatchAtomKeyRegex(s) ==
    \E b \in DollarForms(s) :
        LET segs == SplitOn(b, "/")
        IN  /\ Len(segs) = 6
            /\ MatchSegment(segs[1])
            /\ MatchSegment(segs[2])
            /\ MatchVersion(segs[3])
            /\ MatchSegment(segs[4])
            /\ MatchSegment(segs[5])
            /\ MatchSequence(segs[6])

validate_atom_key(key) == MatchAtomKeyRegex(key)

RECURSIVE Decimal(_)
\* the decimal digits of a natural number
Decimal(n) ==
    IF n < 10 THEN <<DigitSeq[n + 1]>>
    ELSE Decimal(n \div 10) \o <<DigitSeq[(n % 10) + 1]>>

RECURSIVE ZeroFill(_, _)
ZeroFill(s, width) == IF Len(s) >= width THEN s ELSE ZeroFill(<<"0">> \o s, width)

\* f"{sequence:03d}": the sign counts in the width
FormatSeq(n) ==
    IF n >= 0 THEN ZeroFill(Decimal(n), SeqWidth)
    ELSE <<"-">> \o ZeroFill(Decimal(0 - n), SeqWidth - 1)

\* str(revision)
FormatInt(n) == IF n >= 0 THEN Decimal(n) ELSE <<"-">> \o Decimal(0 - n)

\* lines 82-83 as `if revision:`: a revision of 0 is left out
BuildKeyTruthyRevision(namespace, workflow, version, phase, lane, sequence, variant, revision) ==
    LET base == JoinWith(<<namespace, workflow, version, phase, lane,
                           FormatSeq(sequence)>>, "/")
        withVariant ==
            IF Len(variant) = 1 /\ Len(variant[1]) > 0
            THEN base \o <<"-">> \o variant[1] ELSE base
    IN  IF Len(revision) = 1 /\ revision[1] # 0
        THEN withVariant \o <<"-", "r">> \o FormatInt(revision[1])
        ELSE withVariant

\* variant and revision are <<>> (None) or <<value>>
build_atom_key(namespace, workflow, version, phase, lane, sequence, variant, revision) ==
    LET base == JoinWith(<<namespace, workflow, version, phase, lane,
                           FormatSeq(sequence)>>, "/")
        withVariant ==
            IF Len(variant) = 1 /\ Len(variant[1]) > 0
            THEN base \o <<"-">> \o variant[1] ELSE base
    IN  IF Len(revision) = 1
        THEN withVariant \o <<"-", "r">> \o FormatInt(revision[1])
        ELSE withVariant

RECURSIVE EncodeBase32(_, _)
\* n as `width` Crockford base32 digits, most significant first
EncodeBase32(n, width) ==
    IF width = 0 THEN <<>>
    ELSE EncodeBase32(n \div 32, width - 1) \o <<CrockfordSeq[(n % 32) + 1]>>

\* str(ULID()): the 128-bit value (48-bit time, 80 random bits) as 26 digits.
\* The model numbers the values drawn: the n-th draw has value n, and no two
\* draws are equal.
generate_ulid(n) == EncodeBase32(n, UlidLen)

(***************************************************************************)
(* process2atoms.py: text helpers                                          *)
(***************************************************************************)
RECURSIVE LStrip(_, _)
LStrip(s, class) ==
    IF Len(s) > 0 /\ s[1] \in class THEN LStrip(Tail(s), class) ELSE s
RECURSIVE RStrip(_, _)
RStrip(s, class) ==
    IF Len(s) > 0 /\ s[Len(s)] \in class THEN RStrip(Take(s, Len(s) - 1), class) ELSE s
\* str.strip(): both ends
Strip(s, class) == RStrip(LStrip(s, class), class)

\* every maximal run of characters of `class` replaced by the one character `by`
CollapseRuns(s, class, by) ==
    LET kept == SelectSeq([i \in 1..Len(s) |->
                              IF s[i] \in class
                              THEN IF i > 1 /\ s[i - 1] \in class THEN "" ELSE by
                              ELSE s[i]],
                          LAMBDA c : c # "")
    IN  kept

slugify(text, max_len) ==
    LET stripped == Strip(text, Whitespace)
        lowered == [i \in 1..Len(stripped) |-> ToLower(stripped[i])]
        \* re.sub(r"[^a-z0-9]+", "-", s)
        dashed == CollapseRuns(lowered, {lowered[i] : i \in 1..Len(lowered)}
                                           \ (Lower \cup Digit), "-")
        \* re.sub(r"-+", "-", s).strip("-")
        s == Strip(CollapseRuns(dashed, {"-"}, "-"), {"-"})
        cut == IF max_len > 0 /\ Len(s) > max_len
               THEN RStrip(Take(s, max_len), {"-"}) ELSE s
    IN  IF Len(cut) > 0 THEN cut ELSE <<"n", "-", "a">>

titleize(text) ==
    LET spaced == [i \in 1..Len(text) |-> IF text[i] = "_" THEN " " ELSE text[i]]
        t == CollapseRuns(Strip(spaced, Whitespace), Whitespace, " ")
        \* str.title(): a letter that follows a letter is lowered, any other raised
    IN  [i \in 1..Len(t) |->
            IF i > 1 /\ t[i - 1] \in (Lower \cup Upper)
            THEN ToLower(t[i]) ELSE ToUpper(t[i])]

(***************************************************************************)
(* Values of JSON and YAML documents, tagged with their Python type.       *)
(***************************************************************************)
JStr(s) == [t |-> "str", v |-> s]
JInt(n) == [t |-> "int", v |-> n]
None == [t |-> "none"]
JList(items) == [t |-> "list", v |-> items]
JDict(members) == [t |-> "dict", m |-> members]
IsStr(x) == x.t = "str"
\* dict.get(name): None when the member is missing
Get(members, name) == IF name \in DOMAIN members THEN members[name] ELSE None
\* Python truth of a value
Truthy(x) ==
    CASE x.t = "str" -> Len(x.v) > 0
      [] x.t = "int" -> x.v # 0
      [] x.t = "list" -> Len(x.v) > 0
      [] x.t = "dict" -> DOMAIN x.m # {}
      [] OTHER -> FALSE

(***************************************************************************)
(* atom_validator.py                                                       *)
(***************************************************************************)
\* re.match on a value that is no string raises TypeError
Raises == [raised |-> TRUE]
Returns(errors) == [raised |-> FALSE, errors |-> errors]

\* lines 37-40
CheckUid(atom) ==
    IF "atom_uid" \notin DOMAIN atom
    THEN Returns(<<[rule |-> "atom_uid", why |-> "missing"]>>)
    ELSE IF ~IsStr(atom["atom_uid"]) THEN Raises
    ELSE IF ~validate_ulid(atom["atom_uid"].v)
         THEN Returns(<<[rule |-> "atom_uid", why |-> "format"]>>)
    ELSE Returns(<<>>)

\* lines 42-45
CheckKey(atom) ==
    IF "atom_key" \notin DOMAIN atom
    THEN Returns(<<[rule |-> "atom_key", why |-> "missing"]>>)
    ELSE IF ~IsStr(atom["atom_key"]) THEN Raises
    ELSE IF ~validate_atom_key(atom["atom_key"].v)
         THEN Returns(<<[rule |-> "atom_key", why |-> "format"]>>)
    ELSE Returns(<<>>)

\* lines 47-55
CheckTextField(atom, name) ==
    IF name \notin DOMAIN atom THEN Returns(<<[rule |-> name, why |-> "missing"]>>)
    ELSE IF ~Truthy(atom[name]) \/ ~IsStr(atom[name])
         THEN Returns(<<[rule |-> name, why |-> "empty"]>>)
    ELSE Returns(<<>>)

\* lines 62-70: one dependency
CheckDep(dep, i) ==
    IF dep.t = "str"
    THEN IF ~validate_ulid(dep.v)
         THEN Returns(<<[rule |-> "deps", why |-> "ulid", index |-> i]>>)
         ELSE Returns(<<>>)
    ELSE IF dep.t = "dict"
    THEN IF "uid" \in DOMAIN dep.m
         THEN IF ~IsStr(dep.m["uid"]) THEN Raises
              ELSE IF ~validate_ulid(dep.m["uid"].v)
                   THEN Returns(<<[rule |-> "deps", why |-> "ulid", index |-> i]>>)
                   ELSE Returns(<<>>)
         ELSE Returns(<<>>)
    ELSE Returns(<<[rule |-> "deps", why |-> "shape", index |-> i]>>)

RECURSIVE Collect(_)
\* the error lists of the checks in order; the first check that raises ends all
Collect(results) ==
    IF Len(results) = 0 THEN Returns(<<>>)
    ELSE IF results[1].raised THEN Raises
    ELSE LET rest == Collect(Tail(results))
         IN  IF rest.raised THEN Raises
             ELSE Returns(results[1].errors \o rest.errors)

\* lines 58-70
CheckDeps(atom) ==
    IF "deps" \notin DOMAIN atom THEN Returns(<<>>)
    ELSE IF atom["deps"].t # "list"
         THEN Returns(<<[rule |-> "deps", why |-> "not_list"]>>)
    ELSE Collect([i \in 1..Len(atom["deps"].v) |-> CheckDep(atom["deps"].v[i], i - 1)])

\* lines 73-80
CheckStrList(atom, name) ==
    IF name \notin DOMAIN atom THEN Returns(<<>>)
    ELSE IF atom[name].t # "list"
         THEN Returns(<<[rule |-> name, why |-> "not_list"]>>)
    ELSE LET items == atom[name].v
             bad == SelectSeq([i \in 1..Len(items) |->
                                   [rule |-> name, why |-> "item", index |-> i - 1,
                                    isstr |-> IsStr(items[i])]],
                              LAMBDA e : ~e.isstr)
         IN  Returns([i \in 1..Len(bad) |->
                         [rule |-> bad[i].rule, why |-> "item", index |-> bad[i].index]])

\* doc is what yaml.safe_load returned: [parsed |-> FALSE] when it raised.
\* The result is the returned error list, or Raises.
validate_atom(doc) ==
    IF ~doc.parsed THEN Returns(<<[rule |-> "yaml", why |-> "parse"]>>)
    ELSE IF doc.value.t # "dict" THEN Returns(<<[rule |-> "yaml", why |-> "not_dict"]>>)
    ELSE LET atom == doc.value.m
         IN  Collect(<<CheckUid(atom),
                       CheckKey(atom),
                       CheckTextField(atom, "title"),
                       CheckTextField(atom, "role"),
                       CheckDeps(atom),
                       CheckStrList(atom, "inputs"),
                       CheckStrList(atom, "outputs")>>)

(***************************************************************************)
(* The registry file is a sequence of fragments.  json.dumps(e) + "\n" is  *)
(* three of them: the opening brace with the members action and atom_uid,  *)
(* the remaining members with the closing brace, and the newline.  A       *)
(* buffered text file hands its bytes to the operating system in chunks    *)
(* whose ends the program does not choose, so a chunk may end between any  *)
(* two fragments.  A file written by other means may also hold text that   *)
(* is no JSON ("junk"), a complete JSON value that is no object ("value")  *)
(* and white space.  The bytes of a fragment that holds a character        *)
(* outside ASCII are two fragments, so that a chunk may also end inside    *)
(* the character.                                                          *)
(***************************************************************************)
NL == [k |-> "nl"]
Space == [k |-> "space"]
Junk == [k |-> "junk"]
Value(v) == [k |-> "value", v |-> v]
OpenFrag(members) == [k |-> "open", m |-> members]
CloseFrag(members) == [k |-> "close", m |-> members]

\* the two parts of the bytes of a fragment that holds a character outside
\* ASCII: up to the first byte of the character, and from its second byte
Utf8Head(f) == [k |-> "head", f |-> f]
Utf8Tail(f) == [k |-> "tail", f |-> f]

NonAscii == {"é"}

HasNonAscii(f) ==
    /\ f.k \in {"open", "close"}
    /\ \E name \in DOMAIN f.m :
          /\ f.m[name].t = "str"
          /\ \E i \in 1..Len(f.m[name].v) : f.m[name].v[i] \in NonAscii

RECURSIVE utf8_encode(_)
\* encoding="utf-8" at line 218: the text as the bytes of the file
utf8_encode(text) ==
    IF Len(text) = 0 THEN <<>>
    ELSE (IF HasNonAscii(text[1]) THEN <<Utf8Head(text[1]), Utf8Tail(text[1])>>
          ELSE <<text[1]>>) \o utf8_encode(Tail(text))

RECURSIVE utf8_decode(_)
\* encoding="utf-8" at line 184: the bytes of the file as text;
\* UnicodeDecodeError when the bytes of a character are not all there, one
\* after the other
utf8_decode(content) ==
    IF Len(content) = 0 THEN [raised |-> FALSE, text |-> <<>>]
    ELSE IF /\ content[1].k = "head"
            /\ Len(content) >= 2
            /\ content[2] = Utf8Tail(content[1].f)
    THEN LET rest == utf8_decode(Drop(content, 2))
         IN  [raised |-> rest.raised, text |-> <<content[1].f>> \o rest.text]
    ELSE LET rest == utf8_decode(Tail(content))
         IN  [raised |-> rest.raised \/ content[1].k \in {"head", "tail"},
              text |-> <<content[1]>> \o rest.text]

OpenNames == {"action", "atom_uid"}
Restrict(f, names) == [n \in (DOMAIN f \cap names) |-> f[n]]

\* json.dumps(e, ensure_ascii=False)
json_dumps(e) == <<OpenFrag(Restrict(e, OpenNames)),
                   CloseFrag(Restrict(e, DOMAIN e \ OpenNames))>>

\* json.loads(line): an object is one opening and one closing fragment, of a
\* member given twice the later one stays, and white space between is ignored
json_loads(text) ==
    LET line == SelectSeq(text, LAMBDA f : f.k # "space")
    IN  IF Len(line) = 2 /\ line[1].k = "open" /\ line[2].k = "close"
        THEN [raised |-> FALSE, value |-> JDict(line[2].m @@ line[1].m)]
        ELSE IF Len(line) = 1 /\ line[1].k = "value"
        THEN [raised |-> FALSE, value |-> line[1].v]
        ELSE [raised |-> TRUE]

\* the fold with the first entry of a key kept instead of the last
ReadLineFirstWins(mp, rawline) ==
    LET line == Strip(rawline, {Space})
        parsed == json_loads(line)
    IN  IF Len(line) = 0 THEN [raised |-> FALSE, mp |-> mp]
        ELSE IF parsed.raised THEN [raised |-> FALSE, mp |-> mp]
        ELSE IF parsed.value.t # "dict" THEN [raised |-> TRUE]
        ELSE LET uid == Get(parsed.value.m, "atom_uid")
                 key == Get(parsed.value.m, "atom_key")
             IN  IF IsStr(uid) /\ IsStr(key)
                 THEN [raised |-> FALSE, mp |-> mp @@ (key.v :> uid.v)]
                 ELSE [raised |-> FALSE, mp |-> mp]

\* lines 185-196: one line folded into mp; AttributeError when the line is
\* JSON but no object (obj.get is outside the try)
ReadLine(mp, rawline) ==
    LET line == Strip(rawline, {Space})
        parsed == json_loads(line)
    IN  IF Len(line) = 0 THEN [raised |-> FALSE, mp |-> mp]
        ELSE IF parsed.raised THEN [raised |-> FALSE, mp |-> mp]
        ELSE IF parsed.value.t # "dict" THEN [raised |-> TRUE]
        ELSE LET uid == Get(parsed.value.m, "atom_uid")
                 key == Get(parsed.value.m, "atom_key")
             IN  IF IsStr(uid) /\ IsStr(key)
                 THEN [raised |-> FALSE, mp |-> (key.v :> uid.v) @@ mp]
                 ELSE [raised |-> FALSE, mp |-> mp]

RECURSIVE ReadLines(_, _)
ReadLines(mp, lines) ==
    IF Len(lines) = 0 THEN [raised |-> FALSE, mp |-> mp]
    ELSE LET r == ReadLine(mp, lines[1])
         IN  IF r.raised THEN r ELSE ReadLines(r.mp, Tail(lines))

\* the lines that the iteration at line 185 yields: the text between the
\* newlines
FileLines(content) == SplitOn(utf8_decode(content).text, NL)

\* lines 179-197 without lines 181-182: the opening at line 184 of a file that
\* is not there raises FileNotFoundError
ReadWithoutExistsCheck(exists, content) ==
    IF ~exists THEN [raised |-> TRUE]
    ELSE IF utf8_decode(content).raised THEN [raised |-> TRUE]
    ELSE ReadLines(<<>>, FileLines(content))

\* lines 179-197
read_registry_map(exists, content) ==
    IF ~exists THEN [raised |-> FALSE, mp |-> <<>>]
    ELSE IF utf8_decode(content).raised THEN [raised |-> TRUE]
    ELSE ReadLines(<<>>, FileLines(content))

\* json.dumps(e, ensure_ascii=False) + "\n" of every entry, line 220
RECURSIVE Lines(_)
Lines(entries) ==
    IF Len(entries) = 0 THEN <<>>
    ELSE json_dumps(entries[1]) \o <<NL>> \o Lines(Tail(entries))

RECURSIVE Unterminated(_)
Unterminated(entries) ==
    IF Len(entries) = 0 THEN <<>>
    ELSE json_dumps(entries[1]) \o Unterminated(Tail(entries))

\* the loop of lines 219-220 without the "\n" of line 220
StreamUnterminated(entries) == utf8_encode(Unterminated(entries))

\* lines 218-220: the bytes that the loop writes into the file object
Stream(entries) == utf8_encode(Lines(entries))

(***************************************************************************)
(* Inputs of the runs.  An AtomSpec is what parse_process_doc yields for   *)
(* one atom line; a run is one call of generate_yaml_and_registry.         *)
(***************************************************************************)
AtomSpec(phase_slug, lane, sequence, raw_title, role, source_doc) ==
    [phase_slug |-> phase_slug, lane |-> lane, sequence |-> sequence,
     raw_title |-> raw_title, role |-> role, source_doc |-> source_doc]

DocA == <<"a", ".", "m", "d">>
DocB == <<"b", ".", "m", "d">>
DocC == <<"c", ".", "m", "d">>
PhaseSlug == <<"p", "0", "0", "-", "e">>
LaneAi == <<"a", "i">>
LaneAll == <<"a", "l", "l">>
\* a.md: two atoms
AtomsA == <<AtomSpec(PhaseSlug, LaneAi, 1, <<"d", "e", "t", "_", "x">>, <<"o">>, DocA),
            AtomSpec(PhaseSlug, LaneAll, 2, <<"v", "a", "l">>, <<"q">>, DocA)>>
\* b.md: another document whose one atom has the coordinates of a.md's first
AtomsB == <<AtomSpec(PhaseSlug, LaneAi, 1, <<"o", "t", "h", "e", "r">>, <<"o">>, DocB)>>
\* c.md: an atom whose title is one underscore
AtomsC == <<AtomSpec(PhaseSlug, LaneAll, 3, <<"_">>, <<"q">>, DocC)>>

\* now: the time the run takes at line 244, set when it starts
RunArgs(atoms, namespace, dry_run) ==
    [atoms |-> atoms, namespace |-> namespace, workflow |-> <<"w">>,
     version |-> <<"v", "1">>, dry_run |-> dry_run, now |-> 0]

RunInputs ==
    {RunArgs(AtomsA, <<"c">>, FALSE),
     RunArgs(AtomsB, <<"c">>, FALSE),
     RunArgs(AtomsB, <<"c">>, TRUE),
     RunArgs(AtomsB, <<"C">>, FALSE),
     RunArgs(AtomsC, <<"c">>, FALSE)}

NoArgs == RunArgs(<<>>, <<>>, FALSE)

Procs == 1..NProcs
\* the lock token: nobody's (absent), left behind by a process that died
\* holding it, or the number of the process that created it
NoLock == 0
StaleLock == -1

VARIABLES
    dir_exists,       \* the registry's parent directory exists
    registry_exists,  \* the registry file exists
    registry,         \* its content
    lock,             \* the lock token
    atom_files,       \* the atom files: path -> YAML document
    atom_dirs,        \* the directories made under atoms_dir
    ulids,            \* how many identifiers generate_ulid has drawn
    clock,            \* how many runs have started (their timestamps)
    pc,               \* where each process is
    args,             \* the arguments of its run
    idx,              \* the atom of the loop at line 246
    registry_map,     \* line 239
    reg_entries,      \* line 242, and the entries of append_registry_entries
    summary,          \* created, updated, registry_appended
    attempts,         \* failed attempts of the loop at line 204
    pending,          \* written to the file object, not yet to the file
    created_lock,     \* history: this call created the lock token
    appended,         \* history: the batches of the append calls that returned
    seen,             \* history: the content that read_registry_map has read
    returned          \* the last call of a validator: its argument and result

vars == <<dir_exists, registry_exists, registry, lock, atom_files, atom_dirs, ulids,
          clock, pc, args, idx, registry_map, reg_entries, summary, attempts,
          pending, created_lock, appended, seen, returned>>

fsVars == <<dir_exists, registry_exists, registry, lock, atom_files, atom_dirs>>
runVars == <<args, idx, registry_map, reg_entries, summary>>
appendVars == <<attempts, pending, created_lock>>

NoSummary == [created |-> 0, updated |-> 0, registry_appended |-> 0]

\* no call of a validator is under way
NoCall == [fn |-> "none"]

InitLocals ==
    /\ pc = [p \in Procs |-> "idle"]
    /\ args = [p \in Procs |-> NoArgs]
    /\ idx = [p \in Procs |-> 1]
    /\ registry_map = [p \in Procs |-> <<>>]
    /\ reg_entries = [p \in Procs |-> <<>>]
    /\ summary = [p \in Procs |-> NoSummary]
    /\ attempts = [p \in Procs |-> 0]
    /\ pending = [p \in Procs |-> <<>>]
    /\ created_lock = [p \in Procs |-> FALSE]
    /\ seen = [p \in Procs |-> <<>>]

InitProcs == InitLocals /\ returned = NoCall

\* an empty workspace: no registry, no token, no atom file
EmptyWorkspace ==
    /\ dir_exists = TRUE
    /\ registry_exists = FALSE
    /\ registry = <<>>
    /\ lock = NoLock
    /\ atom_files = <<>>
    /\ atom_dirs = {}
    /\ ulids = 0
    /\ clock = 0
    /\ appended = {}
    /\ InitProcs

(***************************************************************************)
(* generate_yaml_and_registry, lines 229-308                               *)
(***************************************************************************)
Insert == <<"i", "n", "s", "e", "r", "t">>
Upsert == <<"u", "p", "s", "e", "r", "t">>
ModeOf(lane) ==
    IF lane = <<"a", "i">> THEN <<"a", "i">>
    ELSE IF lane = <<"d", "e", "t">>
    THEN <<"d", "e", "t", "e", "r", "m", "i", "n", "i", "s", "t", "i", "c">>
    ELSE <<"u", "n", "s", "p", "e", "c", "i", "f", "i", "e", "d">>
\* the isoformat of the time the run took at line 244
Timestamp(now) == <<"T">> \o Decimal(now)

Idle(p) == pc[p] \in {"idle", "done", "failed", "append_failed", "read", "read_failed"}

\* the locals of a call end with it
Forget(p) ==
    /\ args' = [args EXCEPT ![p] = NoArgs]
    /\ idx' = [idx EXCEPT ![p] = 1]
    /\ registry_map' = [registry_map EXCEPT ![p] = <<>>]
    /\ reg_entries' = [reg_entries EXCEPT ![p] = <<>>]

\* lines 239-244: the call, its reading of the registry, and its locals
StartRun(p, a) ==
    /\ Idle(p)
    /\ clock < MaxRuns
    /\ clock' = clock + 1
    /\ summary' = [summary EXCEPT ![p] = NoSummary]
    /\ LET r == read_registry_map(registry_exists, registry)
       IN  IF r.raised
           THEN /\ pc' = [pc EXCEPT ![p] = "failed"]
                /\ Forget(p)
           ELSE /\ pc' = [pc EXCEPT ![p] = "atoms"]
                /\ registry_map' = [registry_map EXCEPT ![p] = r.mp]
                /\ args' = [args EXCEPT ![p] = [a EXCEPT !.now = clock + 1]]
                /\ idx' = [idx EXCEPT ![p] = 1]
                /\ reg_entries' = [reg_entries EXCEPT ![p] = <<>>]
    /\ UNCHANGED <<fsVars, ulids, appendVars, appended, seen, returned>>

\* line 248 without the lookup: a fresh identifier whatever the mapping holds
AlwaysAssign(mp, atom_key, n) == [uid |-> generate_ulid(n), isNew |-> TRUE]

\* registry_map.get(atom_key) or generate_ulid(), line 248: the identifier
\* of the mapping unless the key is missing or its identifier is empty
LookupOrAssign(mp, atom_key, n) ==
    IF atom_key \in DOMAIN mp /\ Len(mp[atom_key]) > 0
    THEN [uid |-> mp[atom_key], isNew |-> FALSE]
    ELSE [uid |-> generate_ulid(n), isNew |-> TRUE]

\* lines 249-252: the run raises ValueError
Invalid(atom_key, uid) == ~validate_atom_key(atom_key) \/ ~validate_ulid(uid)

\* line 281
\* line 281 without the look-up: every entry is an insert
AlwaysInsert(mp, atom_key) == Insert

ActionOf(mp, atom_key) == IF atom_key \in DOMAIN mp THEN Upsert ELSE Insert

\* line 247
KeyOf(a, s) ==
    build_atom_key(a.namespace, a.workflow, a.version, s.phase_slug, s.lane,
                   s.sequence, <<>>, <<>>)

\* lines 254-258
RelDir(a, s) == JoinWith(<<a.namespace, a.workflow, a.version, s.phase_slug, s.lane>>, "/")
FilePath(a, s) ==
    RelDir(a, s) \o <<"/">> \o FormatSeq(s.sequence) \o <<"_">>
        \o slugify(s.raw_title, FileSlugMaxLen) \o <<".", "y", "a", "m", "l">>

\* lines 260-269
AtomYaml(a, s, uid, atom_key) ==
    [atom_uid |-> JStr(uid), atom_key |-> JStr(atom_key),
     title |-> JStr(titleize(s.raw_title)), role |-> JStr(s.role),
     source_doc |-> JStr(s.source_doc), mode |-> JStr(ModeOf(s.lane)),
     created_at |-> JStr(Timestamp(a.now))]

\* lines 282-291
RegEntry(a, s, uid, atom_key, action) ==
    [action |-> JStr(action), atom_uid |-> JStr(uid), atom_key |-> JStr(atom_key),
     title |-> JStr(titleize(s.raw_title)), role |-> JStr(s.role),
     source_doc |-> JStr(s.source_doc), version |-> JStr(a.version),
     timestamp |-> JStr(Timestamp(a.now))]

\* yaml.safe_dump of a mapping of strings and yaml.safe_load of the file give
\* the mapping back
YamlFile(members) == [parsed |-> TRUE, value |-> JDict(members)]

\* lines 246-308 without the tests of dry_run at lines 271 and 299
ProcessAtomIgnoringDryRun(p) ==
    /\ pc[p] = "atoms"
    /\ LET a == args[p]
           s == a.atoms[idx[p]]
           atom_key == KeyOf(a, s)
           got == LookupOrAssign(registry_map[p], atom_key, ulids + 1)
           invalid == Invalid(atom_key, got.uid)
           doc == YamlFile(AtomYaml(a, s, got.uid, atom_key))
           checked == validate_atom(doc)
           rejected == (checked.raised \/ Len(checked.errors) > 0)
           existed == FilePath(a, s) \in DOMAIN atom_files
           entries == Append(reg_entries[p],
                             RegEntry(a, s, got.uid, atom_key,
                                      ActionOf(registry_map[p], atom_key)))
           last == idx[p] = Len(a.atoms)
           counted == [summary[p] EXCEPT
                          !.created = IF existed THEN @ ELSE @ + 1,
                          !.updated = IF existed THEN @ + 1 ELSE @]
       IN  /\ ulids' = IF got.isNew THEN ulids + 1 ELSE ulids
           /\ atom_dirs' = IF invalid THEN atom_dirs ELSE atom_dirs \cup {RelDir(a, s)}
           /\ atom_files' = IF invalid THEN atom_files
                            ELSE (FilePath(a, s) :> doc) @@ atom_files
           /\ IF invalid \/ rejected
              THEN /\ pc' = [pc EXCEPT ![p] = "failed"]
                   /\ summary' = [summary EXCEPT ![p] = NoSummary]
                   /\ Forget(p)
              ELSE IF FALSE
              THEN /\ pc' = [pc EXCEPT ![p] = "done"]
                   /\ summary' = [summary EXCEPT ![p] = counted]
                   /\ Forget(p)
              ELSE /\ pc' = [pc EXCEPT ![p] = IF last THEN "lock" ELSE "atoms"]
                   /\ summary' = [summary EXCEPT ![p] = counted]
                   /\ reg_entries' = [reg_entries EXCEPT ![p] = entries]
                   /\ idx' = [idx EXCEPT ![p] = idx[p] + 1]
                   /\ UNCHANGED <<args, registry_map>>
    /\ UNCHANGED <<dir_exists, registry_exists, registry, lock, clock,
                   appendVars, appended, seen, returned>>

\* lines 246-297: one iteration of the loop, and after the last one lines
\* 299-308 up to the call of append_registry_entries
ProcessAtom(p) ==
    /\ pc[p] = "atoms"
    /\ LET a == args[p]
           s == a.atoms[idx[p]]
           atom_key == KeyOf(a, s)
           got == LookupOrAssign(registry_map[p], atom_key, ulids + 1)
           invalid == Invalid(atom_key, got.uid)
           doc == YamlFile(AtomYaml(a, s, got.uid, atom_key))
           checked == validate_atom(doc)
           rejected == ~a.dry_run /\ (checked.raised \/ Len(checked.errors) > 0)
           existed == FilePath(a, s) \in DOMAIN atom_files
           entries == Append(reg_entries[p],
                             RegEntry(a, s, got.uid, atom_key,
                                      ActionOf(registry_map[p], atom_key)))
           last == idx[p] = Len(a.atoms)
           counted == [summary[p] EXCEPT
                          !.created = IF existed THEN @ ELSE @ + 1,
                          !.updated = IF existed THEN @ + 1 ELSE @]
       IN  /\ ulids' = IF got.isNew THEN ulids + 1 ELSE ulids
           /\ atom_dirs' = IF invalid THEN atom_dirs ELSE atom_dirs \cup {RelDir(a, s)}
           /\ atom_files' = IF invalid \/ a.dry_run THEN atom_files
                            ELSE (FilePath(a, s) :> doc) @@ atom_files
           /\ IF invalid \/ rejected
              THEN /\ pc' = [pc EXCEPT ![p] = "failed"]
                   /\ summary' = [summary EXCEPT ![p] = NoSummary]
                   /\ Forget(p)
              ELSE IF last /\ a.dry_run
              THEN /\ pc' = [pc EXCEPT ![p] = "done"]
                   /\ summary' = [summary EXCEPT ![p] = counted]
                   /\ Forget(p)
              ELSE /\ pc' = [pc EXCEPT ![p] = IF last THEN "lock" ELSE "atoms"]
                   /\ summary' = [summary EXCEPT ![p] = counted]
                   /\ reg_entries' = [reg_entries EXCEPT ![p] = entries]
                   /\ idx' = [idx EXCEPT ![p] = idx[p] + 1]
                   /\ UNCHANGED <<args, registry_map>>
    /\ UNCHANGED <<dir_exists, registry_exists, registry, lock, clock,
                   appendVars, appended, seen, returned>>

(***************************************************************************)
(* append_registry_entries, lines 200-226                                  *)
(***************************************************************************)
\* a loop at line 204 without its bound: the attempt is repeated for as long
\* as the token is there
TryLockForever(p) ==
    /\ pc[p] = "lock"
    /\ dir_exists
    /\ IF lock = NoLock
       THEN /\ lock' = p
            /\ created_lock' = [created_lock EXCEPT ![p] = TRUE]
            /\ pc' = [pc EXCEPT ![p] = "open"]
       ELSE UNCHANGED <<pc, lock, created_lock>>
    /\ UNCHANGED <<dir_exists, registry_exists, registry, atom_files, atom_dirs,
                   ulids, clock, runVars, attempts, pending, appended, seen, returned>>

\* lines 204-214: one attempt to create the token.  The token lies in the
\* registry's directory, and only FileExistsError is caught.  The counter of
\* the loop ends with the loop.
TryLock(p) ==
    /\ pc[p] = "lock"
    /\ IF ~dir_exists
       THEN /\ pc' = [pc EXCEPT ![p] = "failed"]
            /\ summary' = [summary EXCEPT ![p] = NoSummary]
            /\ Forget(p)
            /\ UNCHANGED <<lock, attempts, created_lock>>
       ELSE IF lock = NoLock
       THEN /\ lock' = p
            /\ created_lock' = [created_lock EXCEPT ![p] = TRUE]
            /\ pc' = [pc EXCEPT ![p] = "open"]
            /\ attempts' = [attempts EXCEPT ![p] = 0]
            /\ UNCHANGED <<runVars>>
       ELSE IF attempts[p] + 1 < LockAttempts
       THEN /\ attempts' = [attempts EXCEPT ![p] = attempts[p] + 1]
            /\ UNCHANGED <<pc, lock, created_lock, runVars>>
       ELSE /\ attempts' = [attempts EXCEPT ![p] = 0]
            /\ pc' = [pc EXCEPT ![p] = "open"]
            /\ UNCHANGED <<lock, created_lock, runVars>>
    /\ UNCHANGED <<dir_exists, registry_exists, registry, atom_files, atom_dirs,
                   ulids, clock, pending, appended, seen, returned>>

\* lines 217-220: the directory, the file opened for appending, and the loop
\* that fills the file object
OpenRegistry(p) ==
    /\ pc[p] = "open"
    /\ dir_exists' = TRUE
    /\ registry_exists' = TRUE
    /\ pending' = [pending EXCEPT ![p] = Stream(reg_entries[p])]
    /\ pc' = [pc EXCEPT ![p] = "write"]
    /\ UNCHANGED <<registry, lock, atom_files, atom_dirs, ulids, clock, runVars,
                   attempts, created_lock, appended, seen, returned>>

\* the file opened at line 218 with "w" instead of "a": the first chunk takes
\* the place of what the file held
WriteChunkTruncating(p) ==
    /\ pc[p] = "write"
    /\ \E n \in 1..Len(pending[p]) :
          /\ registry' = (IF pending[p] = Stream(reg_entries[p]) THEN <<>> ELSE registry)
                             \o Take(pending[p], n)
          /\ pending' = [pending EXCEPT ![p] = Drop(pending[p], n)]
          /\ pc' = [pc EXCEPT ![p] = IF n = Len(pending[p]) THEN "unlock" ELSE "write"]
    /\ UNCHANGED <<dir_exists, registry_exists, lock, atom_files, atom_dirs, ulids,
                   clock, runVars, attempts, created_lock, appended, seen, returned>>

\* one chunk reaches the file, at its end (the file is opened with "a"); with
\* the last one the file is closed
WriteChunk(p) ==
    /\ pc[p] = "write"
    /\ \E n \in 1..Len(pending[p]) :
          /\ registry' = registry \o Take(pending[p], n)
          /\ pending' = [pending EXCEPT ![p] = Drop(pending[p], n)]
          /\ pc' = [pc EXCEPT ![p] = IF n = Len(pending[p]) THEN "unlock" ELSE "write"]
    /\ UNCHANGED <<dir_exists, registry_exists, lock, atom_files, atom_dirs, ulids,
                   clock, runVars, attempts, created_lock, appended, seen, returned>>

\* lines 216-220 raise OSError (the directory cannot be made, the file cannot
\* be opened, the device is full): what is not yet in the file is lost
WriteError(p) ==
    /\ pc[p] \in {"open", "write"}
    /\ pc' = [pc EXCEPT ![p] = "unlock_failed"]
    /\ pending' = [pending EXCEPT ![p] = <<>>]
    /\ UNCHANGED <<fsVars, ulids, clock, runVars, attempts, created_lock, appended, seen, returned>>

\* lines 221-226 as code after the with block instead of a finally: the token
\* stays when the block raises
UnlockWithoutFinally(p) ==
    /\ pc[p] \in {"unlock", "unlock_failed"}
    /\ lock' = IF pc[p] = "unlock" THEN NoLock ELSE lock
    /\ pc' = [pc EXCEPT ![p] = IF pc[p] = "unlock" THEN "done" ELSE "append_failed"]
    /\ summary' = [summary EXCEPT ![p] =
                       IF pc[p] = "unlock_failed" \/ args[p] = NoArgs THEN NoSummary
                       ELSE [@ EXCEPT !.registry_appended = Len(reg_entries[p])]]
    /\ appended' = IF pc[p] = "unlock" THEN appended \cup {reg_entries[p]} ELSE appended
    /\ created_lock' = [created_lock EXCEPT ![p] = FALSE]
    /\ Forget(p)
    /\ UNCHANGED <<dir_exists, registry_exists, registry, atom_files, atom_dirs,
                   ulids, clock, attempts, pending, seen, returned>>

\* lines 221-226: the token is removed if there is one, whoever made it,
\* also when lines 216-220 have raised; then the return of
\* append_registry_entries and of its caller, or the error
Unlock(p) ==
    /\ pc[p] \in {"unlock", "unlock_failed"}
    /\ lock' = NoLock
    /\ pc' = [pc EXCEPT ![p] = IF pc[p] = "unlock" THEN "done" ELSE "append_failed"]
    /\ summary' = [summary EXCEPT ![p] =
                       IF pc[p] = "unlock_failed" \/ args[p] = NoArgs THEN NoSummary
                       ELSE [@ EXCEPT !.registry_appended = Len(reg_entries[p])]]
    /\ appended' = IF pc[p] = "unlock" THEN appended \cup {reg_entries[p]} ELSE appended
    /\ created_lock' = [created_lock EXCEPT ![p] = FALSE]
    /\ Forget(p)
    /\ UNCHANGED <<dir_exists, registry_exists, registry, atom_files, atom_dirs,
                   ulids, clock, attempts, pending, seen, returned>>

\* a call of append_registry_entries by another caller than a run
CallAppend(p, entries) ==
    /\ Idle(p)
    /\ clock < MaxRuns
    /\ clock' = clock + 1
    /\ pc' = [pc EXCEPT ![p] = "lock"]
    /\ reg_entries' = [reg_entries EXCEPT ![p] = entries]
    /\ registry_map' = [registry_map EXCEPT ![p] = <<>>]
    /\ UNCHANGED <<fsVars, ulids, args, idx, summary, appendVars, appended, seen, returned>>

\* a call of read_registry_map by another caller than a run; its result stays
\* with the caller
ReadRegistry(p) ==
    /\ Idle(p)
    /\ LET r == read_registry_map(registry_exists, registry)
       IN  /\ pc' = [pc EXCEPT ![p] = IF r.raised THEN "read_failed" ELSE "read"]
           /\ registry_map' = [registry_map EXCEPT ![p] = IF r.raised THEN <<>> ELSE r.mp]
    /\ seen' = [seen EXCEPT ![p] = registry]
    /\ UNCHANGED <<fsVars, ulids, clock, args, idx, reg_entries, summary,
                   appendVars, appended, returned>>

(***************************************************************************)
(* Spec: runs of generate_yaml_and_registry by concurrent processes, on an *)
(* empty workspace or on the workspace that one run of a.md has left.      *)
(***************************************************************************)
EarlierRun == RunArgs(AtomsA, <<"c">>, FALSE)
EarlierEntries ==
    [i \in 1..Len(AtomsA) |->
        RegEntry(EarlierRun, AtomsA[i], generate_ulid(i),
                 KeyOf(EarlierRun, AtomsA[i]), Insert)]
EarlierFiles ==
    [path \in {FilePath(EarlierRun, AtomsA[i]) : i \in 1..Len(AtomsA)} |->
        LET i == CHOOSE j \in 1..Len(AtomsA) : FilePath(EarlierRun, AtomsA[j]) = path
        IN  YamlFile(AtomYaml(EarlierRun, AtomsA[i], generate_ulid(i),
                              KeyOf(EarlierRun, AtomsA[i])))]

WorkspaceAfterRun ==
    /\ dir_exists = TRUE
    /\ registry_exists = TRUE
    /\ registry = Stream(EarlierEntries)
    /\ lock = NoLock
    /\ atom_files = EarlierFiles
    /\ atom_dirs = {RelDir(EarlierRun, AtomsA[i]) : i \in 1..Len(AtomsA)}
    /\ ulids = Len(AtomsA)
    /\ clock = 0
    /\ appended = {EarlierEntries}
    /\ InitProcs

Init == EmptyWorkspace \/ WorkspaceAfterRun

ConcurrentInputs ==
    {RunArgs(AtomsA, <<"c">>, FALSE),
     RunArgs(AtomsB, <<"c">>, FALSE)}

Step(p) ==
    \/ \E a \in ConcurrentInputs : StartRun(p, a)
    \/ ProcessAtom(p)
    \/ TryLock(p)
    \/ OpenRegistry(p)
    \/ WriteChunk(p)
    \/ WriteError(p)
    \/ Unlock(p)

Next == \E p \in Procs : Step(p)

Spec == Init /\ [][Next]_vars

(***************************************************************************)
(* SpecSeq: runs one after the other; a run starts when no other is under  *)
(* way.                                                                    *)
(***************************************************************************)
Alone(p) == \A q \in Procs \ {p} : Idle(q)

StepSeq(p) ==
    \/ \E a \in RunInputs : StartRun(p, a)
    \/ ProcessAtom(p)
    \/ TryLock(p)
    \/ OpenRegistry(p)
    \/ WriteChunk(p)
    \/ Unlock(p)

NextSeq == \E p \in Procs : Alone(p) /\ StepSeq(p)

InitSeq == EmptyWorkspace

SpecSeq == InitSeq /\ [][NextSeq]_vars

(***************************************************************************)
(* SpecAppend: concurrent calls of append_registry_entries with batches    *)
(* that share no entry.  The token may be one that a process which died    *)
(* has left behind: nobody removes it.  Every process keeps running.       *)
(***************************************************************************)
\* the i-th entry of the batch of the n-th call
AppendEntry(n, i) ==
    [action |-> JStr(Insert),
     atom_uid |-> JStr(generate_ulid(n * (MaxBatch + 1) + i)),
     atom_key |-> JStr(<<"k">> \o Decimal(n) \o Decimal(i)),
     timestamp |-> JStr(Timestamp(n))]

AppendBatch(n, len) == [i \in 1..len |-> AppendEntry(n, i)]

InitAppend ==
    /\ dir_exists = TRUE
    /\ registry_exists \in BOOLEAN
    /\ registry = <<>>
    /\ lock \in {NoLock, StaleLock}
    /\ atom_files = <<>>
    /\ atom_dirs = {}
    /\ ulids = 0
    /\ clock = 0
    /\ appended = {}
    /\ InitProcs

StepAppend(p) ==
    \/ \E len \in 1..MaxBatch : CallAppend(p, AppendBatch(clock + 1, len))
    \/ TryLock(p)
    \/ OpenRegistry(p)
    \/ WriteChunk(p)
    \/ Unlock(p)

NextAppend == \E p \in Procs : StepAppend(p)

SpecAppend ==
    InitAppend /\ [][NextAppend]_vars /\ \A p \in Procs : WF_vars(StepAppend(p))

\* the entries of the batches of the append calls that have returned
AppendedEntries == UNION {{b[i] : i \in 1..Len(b)} : b \in appended}

\* the lines of the file that have their newline
WholeLines(content) ==
    LET lines == FileLines(content) IN Take(lines, Len(lines) - 1)

InCall(p) == pc[p] \in {"lock", "open", "write", "unlock", "unlock_failed"}

\* C1: once the concurrent calls of append_registry_entries have returned,
\* the log is exactly the records of their batches, one complete record per
\* line: no record is lost or doubled, no line is a part of a record or is
\* made of parts of two.
C1_AppendAtomic ==
    (\A p \in Procs : ~InCall(p)) =>
        LET lines == WholeLines(registry)
        IN  /\ Len(registry) = 0 \/ registry[Len(registry)] = NL
            /\ \A i \in 1..Len(lines) :
                  \E e \in AppendedEntries : lines[i] = json_dumps(e)
            /\ \A e \in AppendedEntries :
                  Cardinality({i \in 1..Len(lines) : lines[i] = json_dumps(e)}) = 1

\* C10: a call of append_registry_entries gives up the token after fewer than
\* LockAttempts failed attempts and goes on without it, so every call returns,
\* also when nobody ever removes the token.
C10_AppendCompletes ==
    /\ [](\A p \in Procs : attempts[p] < LockAttempts)
    /\ \A p \in Procs : (pc[p] = "lock") ~> (pc[p] = "done")

\* a call has written its whole batch without having created the token, which
\* is the one nobody removes
C10_Witness ==
    \E p \in Procs :
        /\ pc[p] = "unlock"
        /\ ~created_lock[p]
        /\ lock = StaleLock
        /\ \A i \in 1..Len(reg_entries[p]) :
              \E j \in 1..Len(WholeLines(registry)) :
                  WholeLines(registry)[j] = json_dumps(reg_entries[p][i])

(***************************************************************************)
(* Properties of the runs                                                  *)
(***************************************************************************)
\* the key and identifier of every line of the log that is a record with a
\* string atom_key and a string atom_uid
LogPairs(content) ==
    LET lines == FileLines(content)
        good == {i \in 1..Len(lines) :
                    LET parsed == json_loads(Strip(lines[i], {Space}))
                    IN  /\ ~parsed.raised
                        /\ parsed.value.t = "dict"
                        /\ IsStr(Get(parsed.value.m, "atom_uid"))
                        /\ IsStr(Get(parsed.value.m, "atom_key"))}
    IN  {LET m == json_loads(Strip(lines[i], {Space})).value.m
         IN  [key |-> m["atom_key"].v, uid |-> m["atom_uid"].v] : i \in good}

\* C2: all the entries ever appended for one atom_key carry the same
\* atom_uid, also when the runs that appended them overlapped in time.
C2_UidStable ==
    \A e1 \in AppendedEntries : \A e2 \in AppendedEntries :
        e1.atom_key = e2.atom_key => e1.atom_uid = e2.atom_uid

\* C4: two different atoms (atoms of two source documents with the same
\* coordinates) are never given the same atom_key in the registry.
C4_NoKeyCollision ==
    \A e1 \in AppendedEntries : \A e2 \in AppendedEntries :
        e1.atom_key = e2.atom_key => e1.source_doc = e2.source_doc

\* C5: no atom_uid is recorded for two atom_keys, neither in the log nor in
\* the current mapping derived from it.
C5_UidUnique ==
    /\ \A r1 \in LogPairs(registry) : \A r2 \in LogPairs(registry) :
          r1.uid = r2.uid => r1.key = r2.key
    /\ LET r == read_registry_map(registry_exists, registry)
       IN  ~r.raised =>
              \A k1 \in DOMAIN r.mp : \A k2 \in DOMAIN r.mp :
                  r.mp[k1] = r.mp[k2] => k1 = k2

\* the current mapping: what read_registry_map gives for the registry as it is
Current == read_registry_map(registry_exists, registry).mp

\* the entries of the runs under way
PendingEntries == UNION {{reg_entries[p][i] : i \in 1..Len(reg_entries[p])} : p \in Procs}

\* an iteration of the loop at line 246 by p, for a key of the current mapping
LooksUpKnownKey(p) ==
    /\ pc[p] = "atoms"
    /\ pc'[p] # "atoms" \/ idx'[p] # idx[p]
    /\ KeyOf(args[p], args[p].atoms[idx[p]]) \in DOMAIN Current

\* C3: when runs follow one another, looking up a key that the current
\* mapping holds gives the identifier of the mapping and draws no fresh one;
\* so every entry of a later run has the identifier that the earlier runs
\* gave its key, and no key of the current mapping changes its identifier.
C3_LookupIdempotent ==
    /\ [](\A e1 \in AppendedEntries \cup PendingEntries :
            \A e2 \in AppendedEntries \cup PendingEntries :
                e1.atom_key = e2.atom_key => e1.atom_uid = e2.atom_uid)
    /\ [][\A p \in Procs :
            LooksUpKnownKey(p) =>
                /\ ulids' = ulids
                /\ pc'[p] \in {"atoms", "lock"} =>
                      reg_entries'[p][Len(reg_entries'[p])].atom_uid.v =
                          Current[KeyOf(args[p], args[p].atoms[idx[p]])]]_vars
    /\ [][registry' # registry =>
            LET before == Current
                after == read_registry_map(registry_exists', registry').mp
            IN  \A k \in DOMAIN before : k \in DOMAIN after /\ after[k] = before[k]]_vars

\* a rerun has returned: two batches have an entry for one key, with one
\* identifier, and no more identifiers were drawn than there are keys
C3_Witness ==
    \E b1 \in appended : \E b2 \in appended \ {b1} :
        \E i \in 1..Len(b1) : \E j \in 1..Len(b2) :
            /\ b1[i].atom_key = b2[j].atom_key
            /\ b1[i].atom_uid = b2[j].atom_uid
            /\ ulids = Cardinality(DOMAIN Current)

(***************************************************************************)
(* Reading the log                                                         *)
(***************************************************************************)
\* what a line of the log records: the key and the identifier of a record
\* with a string atom_key and a string atom_uid, or nothing
LineEntry(rawline) ==
    LET parsed == json_loads(Strip(rawline, {Space}))
    IN  IF /\ ~parsed.raised
           /\ parsed.value.t = "dict"
           /\ IsStr(Get(parsed.value.m, "atom_uid"))
           /\ IsStr(Get(parsed.value.m, "atom_key"))
        THEN [ok |-> TRUE, key |-> parsed.value.m["atom_key"].v,
              uid |-> parsed.value.m["atom_uid"].v,
              timestamp |-> Get(parsed.value.m, "timestamp")]
        ELSE [ok |-> FALSE]

Max(S) == CHOOSE x \in S : \A y \in S : y <= x

\* for every key of a well-formed line, the identifier of the last such line
LastWins(content) ==
    LET lines == FileLines(content)
        good == {i \in 1..Len(lines) : LineEntry(lines[i]).ok}
        keys == {LineEntry(lines[i]).key : i \in good}
    IN  [k \in keys |->
            LineEntry(lines[Max({i \in good : LineEntry(lines[i]).key = k})]).uid]

\* a file of the given lines, the last one with or without its newline
RECURSIVE FileOf(_, _)
FileOf(lines, terminated) ==
    IF Len(lines) = 0 THEN <<>>
    ELSE IF Len(lines) = 1 THEN lines[1] \o (IF terminated THEN <<NL>> ELSE <<>>)
    ELSE lines[1] \o <<NL>> \o FileOf(Tail(lines), terminated)

FilesOf(kinds) ==
    {FileOf(lines, terminated) :
        lines \in UNION {[1..n -> kinds] : n \in 0..MaxLines}, terminated \in BOOLEAN}

InitRead(files) ==
    /\ dir_exists = TRUE
    /\ registry_exists = TRUE
    /\ registry \in files
    /\ lock = NoLock
    /\ atom_files = <<>>
    /\ atom_dirs = {}
    /\ ulids = 0
    /\ clock = 0
    /\ appended = {}
    /\ InitProcs

NextRead == \E p \in Procs : ReadRegistry(p)

(***************************************************************************)
(* SpecFold: read_registry_map on logs as the runs leave them: records,    *)
(* appended in any order of their timestamps, with one identifier or       *)
(* another for a key, empty lines, and the first part of a record whose    *)
(* writer has stopped.                                                     *)
(***************************************************************************)
FoldEntry(key, n, late) ==
    [action |-> JStr(IF late THEN Insert ELSE Upsert),
     atom_uid |-> JStr(generate_ulid(n)),
     atom_key |-> JStr(key),
     timestamp |-> JStr(Timestamp(IF late THEN 2 ELSE 1))]

FoldEntries ==
    {FoldEntry(key, n, late) : key \in {<<"k">>, <<"m">>}, n \in 1..2, late \in BOOLEAN}

FoldLines ==
    {json_dumps(e) : e \in FoldEntries}
        \cup {<<>>, <<OpenFrag(Restrict(FoldEntry(<<"k">>, 1, TRUE), OpenNames))>>}

InitFold == InitRead(FilesOf(FoldLines))

SpecFold == InitFold /\ [][NextRead]_vars

\* C6: read_registry_map gives, for every atom_key of a well-formed entry of
\* the log, the atom_uid of the last such entry in the order of the file,
\* whatever the timestamps and actions of the entries, and no other key.
C6_LastEntryWins ==
    \A p \in Procs :
        /\ pc[p] # "read_failed"
        /\ pc[p] = "read" => registry_map[p] = LastWins(seen[p])

\* a log has been read in which a key has two entries with different
\* identifiers, the later timestamp first
C6_Witness ==
    \E p \in Procs :
        /\ pc[p] = "read"
        /\ seen[p] = registry
        /\ LET lines == FileLines(registry)
           IN  \E i \in 1..Len(lines) : \E j \in (i + 1)..Len(lines) :
                  /\ LineEntry(lines[i]).ok /\ LineEntry(lines[j]).ok
                  /\ LineEntry(lines[i]).key = LineEntry(lines[j]).key
                  /\ LineEntry(lines[i]).uid # LineEntry(lines[j]).uid
                  /\ LineEntry(lines[i]).timestamp = JStr(Timestamp(2))
                  /\ LineEntry(lines[j]).timestamp = JStr(Timestamp(1))
                  /\ registry_map[p][LineEntry(lines[j]).key] = LineEntry(lines[j]).uid

(***************************************************************************)
(* SpecLines: read_registry_map on logs with lines of any content: text    *)
(* that is no JSON, JSON that is no object, objects without a string       *)
(* atom_uid or atom_key, white space, and records.                         *)
(***************************************************************************)
ForeignLines ==
    {<<>>, <<Space>>, <<Junk>>,
     <<Value(JInt(5))>>,
     <<Value(JList(<<>>))>>,
     <<OpenFrag(Restrict(FoldEntry(<<"k">>, 1, TRUE), OpenNames))>>,
     json_dumps([atom_uid |-> JInt(7), atom_key |-> JStr(<<"k">>)]),
     json_dumps([atom_uid |-> JStr(generate_ulid(2))]),
     <<Space>> \o json_dumps(FoldEntry(<<"m">>, 2, FALSE)) \o <<Space>>,
     json_dumps(FoldEntry(<<"k">>, 1, TRUE))}

InitLines == InitRead(FilesOf(ForeignLines))

SpecLines == InitLines /\ [][NextRead]_vars

\* C8: read_registry_map does not fail on the content of a line: it skips
\* the empty lines and the lines that are no record with a string atom_uid
\* and a string atom_key, and folds all the others.
C8_ReadTolerant ==
    \A p \in Procs :
        /\ pc[p] # "read_failed"
        /\ pc[p] = "read" => registry_map[p] = LastWins(seen[p])

(***************************************************************************)
(* SpecRoundTrip: calls of append_registry_entries one after the other on  *)
(* a registry that is empty or absent, and calls of read_registry_map at   *)
(* any moment, also in the middle of an append.                            *)
(***************************************************************************)
\* the entries of the key "m" have a title with a character outside ASCII
RoundTripEntry(key, n) ==
    [action |-> JStr(Insert), atom_uid |-> JStr(generate_ulid(n)),
     atom_key |-> JStr(key),
     title |-> JStr(IF key = <<"m">> THEN <<"C", "a", "f", "é">> ELSE <<"T", "e", "a">>),
     timestamp |-> JStr(Timestamp(0))]

RoundTripEntries == {RoundTripEntry(key, n) : key \in {<<"k">>, <<"m">>}, n \in 1..2}

RoundTripBatches == UNION {[1..n -> RoundTripEntries] : n \in 0..MaxBatch}

InitRoundTrip ==
    /\ dir_exists = TRUE
    /\ registry_exists \in BOOLEAN
    /\ registry = <<>>
    /\ lock = NoLock
    /\ atom_files = <<>>
    /\ atom_dirs = {}
    /\ ulids = 0
    /\ clock = 0
    /\ appended = {}
    /\ InitProcs

StepRoundTrip(p) ==
    \/ /\ \A q \in Procs \ {p} : ~InCall(q)
       /\ \E b \in RoundTripBatches : CallAppend(p, b)
    \/ TryLock(p)
    \/ OpenRegistry(p)
    \/ WriteChunk(p)
    \/ Unlock(p)
    \/ ReadRegistry(p)

NextRoundTrip == \E p \in Procs : StepRoundTrip(p)

SpecRoundTrip == InitRoundTrip /\ [][NextRoundTrip]_vars

\* the mapping of a batch: its keys, each with the identifier of the last
\* entry of the batch that has the key
BatchMapping(b) ==
    [k \in {b[i].atom_key.v : i \in 1..Len(b)} |->
        b[Max({i \in 1..Len(b) : b[i].atom_key.v = k})].atom_uid.v]

\* p has read the registry as it is now
HasRead(p) == pc[p] \in {"read", "read_failed"} /\ seen[p] = registry

\* C7: after one call of append_registry_entries with N entries on an empty
\* or absent registry, read_registry_map gives exactly the distinct keys of
\* the N entries, each with the atom_uid of the last entry that has the key.
C7_RoundTrip ==
    \A p \in Procs : \A b \in appended :
        (HasRead(p) /\ clock = 1 /\ \A q \in Procs : ~InCall(q)) =>
            /\ pc[p] = "read"
            /\ registry_map[p] = BatchMapping(b)

\* a batch in which a key comes twice, with two identifiers, and a second
\* key has been appended and read back
C7_Witness ==
    \E p \in Procs : \E b \in appended :
        /\ HasRead(p) /\ clock = 1 /\ \A q \in Procs : ~InCall(q)
        /\ \E i \in 1..Len(b) : \E j \in (i + 1)..Len(b) :
              b[i].atom_key = b[j].atom_key /\ b[i].atom_uid # b[j].atom_uid
        /\ registry_map[p] = BatchMapping(b)

\* the file ends in the first part of a record
EndsInPartialLine(content) ==
    LET lines == FileLines(content)
    IN  /\ Len(lines[Len(lines)]) > 0
        /\ json_loads(lines[Len(lines)]).raised

\* the file without what follows its last newline
WithoutLastLine(content) ==
    LET lines == FileLines(content)
    IN  FileOf(Take(lines, Len(lines) - 1), TRUE)

\* the entries of the batch of p whose record is in the file in full
WrittenEntries(p) ==
    LET stream == Stream(reg_entries[p])
        written == Take(stream, Len(stream) - Len(pending[p]))
    IN  {reg_entries[p][i] : i \in 1..Len(SelectSeq(written, LAMBDA f : f = NL))}

\* C9: a read_registry_map that sees the first part of a record at the end
\* of the file, because a call of append_registry_entries is writing it, does
\* not fail and gives the mapping of the file without that part: every pair
\* of it is the key and identifier of an entry written in full.
C9_PartialLineDiscarded ==
    \A p \in Procs :
        (pc[p] \in {"read", "read_failed"} /\ EndsInPartialLine(seen[p])) =>
            /\ pc[p] = "read"
            /\ registry_map[p] = LastWins(WithoutLastLine(seen[p]))
            /\ HasRead(p) =>
                  \A k \in DOMAIN registry_map[p] :
                      \E e \in AppendedEntries \cup UNION {WrittenEntries(q) : q \in Procs} :
                          e.atom_key.v = k /\ e.atom_uid.v = registry_map[p][k]

(***************************************************************************)
(* Validation and persistence in the runs                                  *)
(***************************************************************************)
\* the record of a registry entry as validate_atom sees an atom record
RecordOf(e) ==
    [parsed |-> TRUE,
     value |-> JDict([name \in DOMAIN e \cap {"atom_uid", "atom_key", "title", "role"} |->
                         e[name]])]

Rejected(doc) == validate_atom(doc).raised \/ Len(validate_atom(doc).errors) > 0

\* C11: a record whose validation gives errors is never in storage: no atom
\* file holds a record that validate_atom rejects, and no registry entry has
\* been appended for one.
C11_RejectedNotWritten ==
    /\ \A path \in DOMAIN atom_files : ~Rejected(atom_files[path])
    /\ \A e \in AppendedEntries : ~Rejected(RecordOf(e))

(***************************************************************************)
(* SpecForeign: runs one after the other on a registry in which another    *)
(* program has recorded, for the key of the first atom of a.md, an         *)
(* identifier that is no ULID.                                             *)
(***************************************************************************)
ForeignEntry(uid) ==
    [action |-> JStr(Insert), atom_uid |-> JStr(uid),
     atom_key |-> JStr(KeyOf(EarlierRun, AtomsA[1]))]

ForeignUids == {<<"i", "n", "v", "a", "l", "i", "d">>, <<>>}

InitForeign ==
    /\ dir_exists = TRUE
    /\ registry_exists = TRUE
    /\ registry \in {Stream(<<ForeignEntry(uid)>>) : uid \in ForeignUids}
    /\ lock = NoLock
    /\ atom_files = <<>>
    /\ atom_dirs = {}
    /\ ulids = 0
    /\ clock = 0
    /\ appended = {}
    /\ InitProcs

SpecForeign == InitForeign /\ [][NextSeq]_vars

\* C12: every registry entry that a run appends, or holds for appending, has
\* an atom_key that validate_atom_key accepts and an atom_uid that
\* validate_ulid accepts; and a run that has read a malformed identifier for
\* a key from the registry fails with an error instead of going on: it never
\* holds or appends an entry for that key.
C12_IdsChecked ==
    /\ \A e \in AppendedEntries \cup PendingEntries :
          validate_atom_key(e.atom_key.v) /\ validate_ulid(e.atom_uid.v)
    /\ \A p \in Procs : \A i \in 1..Len(reg_entries[p]) :
          LET atom_key == reg_entries[p][i].atom_key.v
          IN  atom_key \in DOMAIN registry_map[p] =>
                  validate_ulid(registry_map[p][atom_key])

(***************************************************************************)
(* The log and the token                                                   *)
(***************************************************************************)
IsPrefix(s, t) == Len(s) <= Len(t) /\ Take(t, Len(s)) = s

\* C13: the registry is append-only: no step of a read, an append or a run,
\* with or without the token, changes or removes what the file holds; the
\* file before the step is a prefix of the file after it, and a file that
\* exists goes on existing.
C13_AppendOnly ==
    [][IsPrefix(registry, registry') /\ (registry_exists => registry_exists')]_vars

\* a process that has not created the token is adding to a file that held
\* entries before it began to write, while the maker of the token writes too
C13_Witness ==
    \E p \in Procs : \E q \in Procs \ {p} :
        /\ pc[p] = "write" /\ ~created_lock[p]
        /\ pc[q] = "write" /\ created_lock[q]
        /\ Len(pending[p]) < Len(Stream(reg_entries[p]))
        /\ Len(pending[q]) < Len(Stream(reg_entries[q]))
        /\ Len(registry) > Len(Stream(reg_entries[p])) + Len(Stream(reg_entries[q]))
              - Len(pending[p]) - Len(pending[q])

\* C14: the token exists only while an append is under way: when no call of
\* append_registry_entries is running there is no token, also after a call
\* in which the writing has raised an error.
C14_TokenOnlyDuringAppend ==
    (\A p \in Procs : ~InCall(p)) => lock = NoLock

\* a call that had created the token and had begun to write has ended with an
\* error, no call is running, and the token is gone
C14_Witness ==
    /\ \E p \in Procs : pc[p] = "append_failed"
    /\ \A p \in Procs : ~InCall(p)
    /\ EndsInPartialLine(registry)
    /\ appended \subseteq {EarlierEntries}
    /\ lock = NoLock

InRun(p) == args[p] # NoArgs /\ pc[p] \in {"atoms", "lock", "open", "write", "unlock", "unlock_failed"}

\* C15: in every batch a run builds and appends, an entry's action is upsert
\* exactly when its atom_key is in the mapping the run read at its start, and
\* insert otherwise.
C15_ActionFromSnapshot ==
    \A p \in Procs : InRun(p) =>
        \A i \in 1..Len(reg_entries[p]) :
            LET e == reg_entries[p][i]
            IN  /\ e.action \in {JStr(Insert), JStr(Upsert)}
                /\ e.action = JStr(Upsert) <=> e.atom_key.v \in DOMAIN registry_map[p]

\* a run is about to return with a batch holding an upsert in the file, after
\* another run of this behaviour has appended a batch of inserts
C15_Witness ==
    /\ \E p \in Procs :
          /\ InRun(p) /\ pc[p] = "unlock"
          /\ \E i \in 1..Len(reg_entries[p]) : reg_entries[p][i].action = JStr(Upsert)
    /\ \E b \in appended \ {EarlierEntries} : b[1].action = JStr(Insert)

\* the identifiers generate_ulid has handed out so far
Generated == {generate_ulid(n) : n \in 1..ulids}

\* C16: where no registry file exists read_registry_map returns the empty
\* mapping and raises nothing, and the run that follows treats every key as
\* new: its snapshot is empty, every entry is an insert, and every entry has an
\* identifier of its own that generate_ulid made.
C16_MissingFileIsEmpty ==
    ~registry_exists =>
        /\ LET r == read_registry_map(registry_exists, registry)
           IN  ~r.raised /\ r.mp = <<>>
        /\ \A p \in Procs : InRun(p) =>
              /\ registry_map[p] = <<>>
              /\ \A i \in 1..Len(reg_entries[p]) :
                    /\ reg_entries[p][i].action = JStr(Insert)
                    /\ reg_entries[p][i].atom_uid.v \in Generated
                    /\ \A j \in 1..Len(reg_entries[p]) :
                          reg_entries[p][j].atom_uid = reg_entries[p][i].atom_uid => i = j

\* a run that found no registry file has made all its entries and is about to
\* write them
C16_Witness ==
    /\ ~registry_exists
    /\ \E p \in Procs :
          /\ InRun(p) /\ pc[p] = "open"
          /\ Len(reg_entries[p]) > 1

(***************************************************************************)
(* SpecCalls: calls of validate_atom on the documents a file can hold and  *)
(* of validate_ulid on strings.  A document is built from one choice for   *)
(* each field.                                                             *)
(***************************************************************************)
Absent == [t |-> "absent"]
ValidUid == generate_ulid(1)
ValidKey == KeyOf(EarlierRun, AtomsA[1])
BadUid == <<"i", "n", "v", "a", "l", "i", "d">>
\* the document of a file that holds the chosen fields
Record(o) ==
    [parsed |-> TRUE,
     value |-> JDict([name \in {n \in DOMAIN o : o[n] # Absent} |-> o[name]])]

\* what yaml.safe_load makes of a file, lines 27-31: an error, a value that is
\* no mapping, or a mapping with one choice for each field.  An integer
\* stands for what YAML reads from an unquoted number.
Docs ==
    {[parsed |-> FALSE], [parsed |-> TRUE, value |-> None],
     [parsed |-> TRUE, value |-> JList(<<JStr(ValidUid)>>)]}
    \cup {Record(o) : o \in
           [atom_uid : {Absent, JStr(ValidUid), JStr(BadUid), JInt(1),
                        JStr(ValidUid \o <<"\n">>)},
            atom_key : {Absent, JStr(ValidKey), JStr(<<"k">>), JInt(1)},
            title : {Absent, JStr(<<"T">>), JStr(<<>>), JInt(1)},
            role : {Absent, JStr(<<"r">>), JStr(<<>>)},
            deps : {Absent,
                    JStr(ValidUid),
                    JList(<<JStr(ValidUid)>>),
                    JList(<<JStr(BadUid)>>),
                    JList(<<JDict([uid |-> JStr(ValidUid)])>>),
                    JList(<<JDict([uid |-> JStr(BadUid)])>>),
                    JList(<<JDict([name |-> JStr(<<"x">>)])>>),
                    JList(<<JDict([uid |-> JInt(1)])>>),
                    JList(<<JInt(1)>>),
                    JList(<<JStr(ValidUid), JInt(1)>>)},
            inputs : {Absent, JStr(<<"x">>), JList(<<JStr(<<"x">>)>>), JList(<<JInt(1)>>)},
            outputs : {Absent, JList(<<JInt(1), JStr(<<"x">>), JInt(1)>>)}]}

\* strings near an identifier: its prefixes, one more character, one character
\* replaced
UlidInputs ==
    {Take(ValidUid, n) : n \in 0..UlidLen}
    \cup {ValidUid \o <<c>> : c \in {"0", "Z", "a", "\n", " "}}
    \cup {[ValidUid EXCEPT ![i] = c] : i \in {1, 13, UlidLen},
                                       c \in {"a", "z", "I", "L", "O", "U", "Z", "-", "\n"}}

\* strings near a key: one choice for the namespace, the version, the
\* sequence, what follows the sequence, and the end of the string
KeyInputs ==
    {<<"i", "n", "v", "a", "l", "i", "d">>, <<"c", "/", "w", "/", "v", "1", "/", "p", "/", "0", "0", "1">>}
    \cup {JoinWith(<<ns, <<"w">>, ver, <<"p">>, <<"l">>, seq \o suffix>>, "/") \o end :
            ns \in {<<"c">>, <<"C">>, <<>>, <<"a", "-", "1">>},
            ver \in {<<"v", "1">>, <<"1">>, <<"v">>, <<"v", "1", "2">>, <<"V", "1">>},
            seq \in {<<"0", "0", "1">>, <<"1">>, <<"0", "0", "0", "1">>, <<"0", "a", "1">>},
            suffix \in {<<>>, <<"-", "w">>, <<"-", "r", "2">>, <<"-", "w", "-", "r", "2">>,
                        <<"-">>, <<"-", "r">>, <<"-", "W">>, <<"-", "r", "2", "-", "w">>,
                        <<"_", "x">>},
            end \in {<<>>, <<"\n">>, <<"/", "x">>, <<" ">>}}

\* arguments of build_atom_key: names and versions inside and outside the
\* grammar, sequences inside and outside 0..999, variant and revision None
\* (<<>>) or a value
BuildInputs ==
    [namespace : {<<"c">>, <<"C">>}, workflow : {<<"w">>}, version : {<<"v", "1">>, <<"1">>},
     phase : {<<"p">>, <<"p", "_">>}, lane : {<<"l">>, <<" ", "l">>},
     sequence : {0 - 1, 0, 3, 42, 999, 1000},
     variant : {<<>>, <<<<"w">>>>, <<<<>>>>, <<<<"W", "_">>>>},
     revision : {<<>>, <<0>>, <<2>>, <<12>>}]

runState == <<fsVars, ulids, clock, pc, runVars, appendVars, appended, seen>>

\* a call that has its argument and has not yet run
Called(fn, arg) == [fn |-> fn, arg |-> arg, done |-> FALSE]

InitCalls ==
    /\ dir_exists = TRUE
    /\ registry_exists = FALSE
    /\ registry = <<>>
    /\ lock = NoLock
    /\ atom_files = <<>>
    /\ atom_dirs = {}
    /\ ulids = 0
    /\ clock = 0
    /\ appended = {}
    /\ InitLocals
    /\ returned \in {Called("validate_atom", doc) : doc \in Docs}
                    \cup {Called("validate_ulid", s) : s \in UlidInputs}
                    \cup {Called("validate_atom_key", key) : key \in KeyInputs}
                    \cup {Called("build_atom_key", a) : a \in BuildInputs}

\* atom_validator.py lines 15-82, on a file that holds the document
CallValidateAtom ==
    /\ returned.fn = "validate_atom" /\ ~returned.done
    /\ returned' = [fn |-> "validate_atom", arg |-> returned.arg, done |-> TRUE,
                    value |-> validate_atom(returned.arg)]
    /\ UNCHANGED runState

\* id_utils.py lines 24-34
CallValidateUlid ==
    /\ returned.fn = "validate_ulid" /\ ~returned.done
    /\ returned' = [fn |-> "validate_ulid", arg |-> returned.arg, done |-> TRUE,
                    value |-> validate_ulid(returned.arg)]
    /\ UNCHANGED runState

\* id_utils.py lines 37-47
CallValidateAtomKey ==
    /\ returned.fn = "validate_atom_key" /\ ~returned.done
    /\ returned' = [fn |-> "validate_atom_key", arg |-> returned.arg, done |-> TRUE,
                    value |-> validate_atom_key(returned.arg)]
    /\ UNCHANGED runState

\* id_utils.py lines 50-85: no statement of the function raises
CallBuildAtomKey ==
    /\ returned.fn = "build_atom_key" /\ ~returned.done
    /\ LET a == returned.arg
       IN  returned' = [fn |-> "build_atom_key", arg |-> a, done |-> TRUE,
                        value |-> [raised |-> FALSE,
                                   key |-> build_atom_key(a.namespace, a.workflow, a.version,
                                                          a.phase, a.lane, a.sequence,
                                                          a.variant, a.revision)]]
    /\ UNCHANGED runState

NextCalls ==
    CallValidateAtom \/ CallValidateUlid \/ CallValidateAtomKey \/ CallBuildAtomKey

SpecCalls == InitCalls /\ [][NextCalls]_vars

Returned(fn) == returned.fn = fn /\ returned.done

\* the rules of a record
ValidId(x) == IsStr(x) /\ validate_ulid(x.v)
ConformantDep(dep) ==
    \/ ValidId(dep)
    \/ dep.t = "dict" /\ "uid" \in DOMAIN dep.m /\ ValidId(dep.m["uid"])
NonEmptyString(atom, name) ==
    name \in DOMAIN atom /\ IsStr(atom[name]) /\ Len(atom[name].v) > 0
StringList(atom, name) ==
    name \in DOMAIN atom =>
        atom[name].t = "list" /\ \A i \in 1..Len(atom[name].v) : IsStr(atom[name].v[i])
Keeps(atom, rule) ==
    CASE rule = "atom_uid" -> "atom_uid" \in DOMAIN atom /\ ValidId(atom["atom_uid"])
      [] rule = "atom_key" -> /\ "atom_key" \in DOMAIN atom
                              /\ IsStr(atom["atom_key"])
                              /\ validate_atom_key(atom["atom_key"].v)
      [] rule = "title" -> NonEmptyString(atom, "title")
      [] rule = "role" -> NonEmptyString(atom, "role")
      [] rule = "deps" ->
             "deps" \in DOMAIN atom =>
                 /\ atom["deps"].t = "list"
                 /\ \A i \in 1..Len(atom["deps"].v) : ConformantDep(atom["deps"].v[i])
      [] rule = "inputs/outputs" -> StringList(atom, "inputs") /\ StringList(atom, "outputs")
Rules == {"atom_uid", "atom_key", "title", "role", "deps", "inputs/outputs"}
ViolatedRules(atom) == {rule \in Rules : ~Keeps(atom, rule)}
IsMapping(doc) == doc.parsed /\ doc.value.t = "dict"
Conformant(doc) == IsMapping(doc) /\ ViolatedRules(doc.value.m) = {}

\* C17: validate_atom collects the violations of all rules: a record that
\* violates k of the rules atom_uid, atom_key, title, role, deps and
\* inputs/outputs yields at least k distinct errors.
C17_CollectsAll ==
    (Returned("validate_atom") /\ IsMapping(returned.arg)) =>
        /\ ~returned.value.raised
        /\ LET errors == returned.value.errors
           IN  Cardinality({errors[i] : i \in 1..Len(errors)})
                   >= Cardinality(ViolatedRules(returned.arg.value.m))

\* C18: validate_atom returns the empty list exactly when the record is
\* conformant: atom_uid and atom_key present and valid, title and role present
\* non-empty strings, deps a sequence of valid identifiers or of structured
\* entries with a valid uid, inputs and outputs sequences of strings.
C18_EmptyIffConformant ==
    (Returned("validate_atom") /\ ~returned.value.raised) =>
        (returned.value.errors = <<>> <=> Conformant(returned.arg))

\* C19: validate_atom returns a list for every content of the file and never
\* raises.
C19_NeverRaises ==
    Returned("validate_atom") => ~returned.value.raised

\* C20: validate_ulid(s) is true exactly when s has 26 characters, all of them
\* of the Crockford alphabet.
C20_UlidExact ==
    Returned("validate_ulid") =>
        (returned.value <=> Len(returned.arg) = UlidLen /\ AllIn(returned.arg, Crockford))

\* the grammar namespace/workflow/version/phase/lane/sequence[-variant][-rN]
NameSegment(s) == Len(s) > 0 /\ AllIn(s, Lower \cup Digit \cup {"-"})
Suffixes(s) ==
    \E i \in 0..Len(s) :
        /\ i = 0 \/ (s[1] = "-" /\ NameSegment(SubSeq(s, 2, i)))
        /\ LET rev == SubSeq(s, i + 1, Len(s))
           IN  \/ Len(rev) = 0
               \/ Len(rev) > 2 /\ rev[1] = "-" /\ rev[2] = "r" /\ AllIn(SubSeq(rev, 3, Len(rev)), Digit)
KeyGrammar(s) ==
    LET segs == SplitOn(s, "/")
    IN  /\ Len(segs) = 6
        /\ \A i \in {1, 2, 4, 5} : NameSegment(segs[i])
        /\ Len(segs[3]) > 1 /\ segs[3][1] = "v" /\ AllIn(Tail(segs[3]), Digit)
        /\ Len(segs[6]) >= 3 /\ AllIn(SubSeq(segs[6], 1, 3), Digit)
        /\ Suffixes(SubSeq(segs[6], 4, Len(segs[6])))

\* C21: validate_atom_key(s) is true exactly for the strings of the grammar
\* namespace/workflow/version/phase/lane/sequence[-variant][-rN].
C21_KeyExact ==
    Returned("validate_atom_key") => (returned.value <=> KeyGrammar(returned.arg))

\* the arguments build_atom_key is to accept
ValidBuildArgs(a) ==
    /\ \A name \in {"namespace", "workflow", "phase", "lane"} : AllIn(a[name], Lower \cup Digit \cup {"-"})
    /\ Len(a.version) > 1 /\ a.version[1] = "v" /\ AllIn(Tail(a.version), Digit)
    /\ a.sequence >= 0 /\ a.sequence <= 999

\* C22: build_atom_key fails and returns no key when a name segment holds a
\* character outside [a-z0-9-], the version is not v and digits, or the
\* sequence is negative or above 999.
C22_BuildRejects ==
    (Returned("build_atom_key") /\ ~ValidBuildArgs(returned.arg)) => returned.value.raised

ThreeDigits(n) == <<DigitSeq[(n \div 100) + 1], DigitSeq[((n \div 10) % 10) + 1], DigitSeq[(n % 10) + 1]>>
Digits(n) == IF n < 10 THEN <<DigitSeq[n + 1]>> ELSE <<DigitSeq[(n \div 10) + 1], DigitSeq[(n % 10) + 1]>>
\* a variant is given when it is a string that is not empty
VariantGiven(a) == a.variant # <<>> /\ a.variant[1] # <<>>
ExpectedKey(a) ==
    a.namespace \o <<"/">> \o a.workflow \o <<"/">> \o a.version \o <<"/">> \o a.phase
        \o <<"/">> \o a.lane \o <<"/">> \o ThreeDigits(a.sequence)
        \o (IF VariantGiven(a) THEN <<"-">> \o a.variant[1] ELSE <<>>)
        \o (IF a.revision # <<>> THEN <<"-", "r">> \o Digits(a.revision[1]) ELSE <<>>)

Holds(p) == created_lock[p] /\ pc[p] \in {"open", "write"}

\* C25: an appender that created the token writes only while its token
\* exists, and no two appenders that each created the token are writing at
\* the same time.
C25_HoldersExclusive ==
    /\ \A p \in Procs : Holds(p) => lock = p
    /\ \A p \in Procs : \A q \in Procs \ {p} : ~(Holds(p) /\ Holds(q))

\* C27: the token is removed only by the appender that created it.
C27_RemovedByCreator ==
    [][\A p \in Procs :
          (lock # NoLock /\ lock' = NoLock /\ pc[p] \in {"unlock", "unlock_failed"}
              /\ pc'[p] # pc[p]) => lock = p]_vars

DryRun(a) == a # NoArgs /\ a.dry_run

\* C26: a run with dry_run set writes neither atom files nor the registry: no
\* step of the run changes the registry, the lock token or an atom file, and
\* the run reports registry_appended = 0.
C26_DryRunWritesNothing ==
    [][\A p \in Procs :
          (DryRun(args[p]) \/ DryRun(args'[p])) =>
              /\ UNCHANGED <<registry_exists, registry, lock, atom_files>>
              /\ pc'[p] = "done" => summary'[p].registry_appended = 0]_vars

\* a dry run of a document with one atom has returned on the workspace that
\* was empty: it counted the atom and there is neither file nor registry
C26_Witness ==
    \E p \in Procs :
        /\ pc[p] = "done"
        /\ summary[p].created > 0 /\ summary[p].registry_appended = 0
        /\ atom_files = <<>>
        /\ ~registry_exists

\* C28: after any run, returned or raised, every atom file carries the
\* atom_uid that the registry's current mapping holds for the file's atom_key.
C28_FilesMatchRegistry ==
    (\A p \in Procs : Idle(p)) =>
        LET r == read_registry_map(registry_exists, registry)
        IN  \A path \in DOMAIN atom_files :
                LET atom == atom_files[path].value.m
                IN  /\ ~r.raised
                    /\ atom["atom_key"].v \in DOMAIN r.mp
                    /\ r.mp[atom["atom_key"].v] = atom["atom_uid"].v

(***************************************************************************)
(* SpecPipeline: main's pipeline, parse_process_doc and then                *)
(* generate_yaml_and_registry, one document after the other.  A document   *)
(* is the list of atom lines that lines 152-161 have collected from it.    *)
(***************************************************************************)
RECURSIVE LessStr(_, _)
\* s < t of Python strings: by the code points of their first difference
LessStr(s, t) ==
    LET order == <<" ", "-">> \o DigitSeq \o UpperSeq \o <<"_">> \o LowerSeq
    IN  IF Len(t) = 0 THEN FALSE
        ELSE IF Len(s) = 0 THEN TRUE
        ELSE IF s[1] = t[1] THEN LessStr(Tail(s), Tail(t))
        ELSE IndexOf(s[1], order) < IndexOf(t[1], order)

\* lines 165-172 without the dictionary: every atom line is kept
ParseKeepsRepeats(atoms) == atoms

\* lines 165-172: of the lines with the same (phase_slug, lane, sequence) the
\* last is kept, and the kept ones are sorted by that triple
parse_process_doc(atoms) ==
    LET Same(a, b) == a.phase_slug = b.phase_slug /\ a.lane = b.lane /\ a.sequence = b.sequence
        Less(a, b) ==
            \/ LessStr(a.phase_slug, b.phase_slug)
            \/ a.phase_slug = b.phase_slug /\ LessStr(a.lane, b.lane)
            \/ a.phase_slug = b.phase_slug /\ a.lane = b.lane /\ a.sequence < b.sequence
        kept == {i \in 1..Len(atoms) : \A j \in (i + 1)..Len(atoms) : ~Same(atoms[i], atoms[j])}
        place(i) == 1 + Cardinality({j \in kept : Less(atoms[j], atoms[i])})
    IN  [k \in 1..Cardinality(kept) |-> atoms[CHOOSE i \in kept : place(i) = k]]

\* the atom lines of a document: up to MaxLines of them, repeated or not
AtomLines ==
    LET line == {AtomSpec(PhaseSlug, LaneAi, 1, <<"x">>, <<"q">>, DocA),
                 AtomSpec(PhaseSlug, LaneAi, 1, <<"y">>, <<"q">>, DocA),
                 AtomSpec(PhaseSlug, LaneAll, 1, <<"x">>, <<"q">>, DocA),
                 AtomSpec(<<"p", "0", "1", "-", "e">>, LaneAi, 1, <<"x">>, <<"q">>, DocA),
                 AtomSpec(PhaseSlug, LaneAi, 2, <<"x">>, <<"q">>, DocA)}
    IN  UNION {[1..n -> line] : n \in 1..MaxLines}

\* lines 363-383: the document is parsed and its atoms are handed to the run;
\* then the steps of the run
NextPipeline ==
    \E p \in Procs :
        /\ Alone(p)
        /\ \/ \E lines \in AtomLines :
                 StartRun(p, RunArgs(parse_process_doc(lines), <<"c">>, FALSE)
                                 @@ [lines |-> lines])
           \/ ProcessAtom(p)
           \/ TryLock(p)
           \/ OpenRegistry(p)
           \/ WriteChunk(p)
           \/ Unlock(p)

SpecPipeline == InitSeq /\ [][NextPipeline]_vars

\* C29: a batch of the pipeline holds at most one entry for an atom_key, and
\* the entry is that of the last atom line with the key's phase, lane and
\* sequence.
C29_OneEntryPerKey ==
    \A p \in Procs : InRun(p) =>
        \A i \in 1..Len(reg_entries[p]) :
            LET e == reg_entries[p][i]
                lines == args[p].lines
                last == CHOOSE k \in 1..Len(lines) :
                            /\ KeyOf(args[p], lines[k]) = e.atom_key.v
                            /\ \A j \in (k + 1)..Len(lines) :
                                  KeyOf(args[p], lines[j]) # e.atom_key.v
            IN  /\ \A j \in 1..Len(reg_entries[p]) :
                       reg_entries[p][j].atom_key = e.atom_key => i = j
                /\ e.title = JStr(titleize(lines[last].raw_title))

\* a document with a repeated atom line and another line is in its run, and
\* the batch with its two entries is about to be in the file
C29_Witness ==
    \E p \in Procs :
        /\ InRun(p) /\ pc[p] = "unlock"
        /\ Len(reg_entries[p]) = 2
        /\ Len(args[p].lines) = 3

(***************************************************************************)
(* SpecMissingDir: calls of append_registry_entries for a registry whose   *)
(* parent directory may not exist yet.                                     *)
(***************************************************************************)
InitMissingDir ==
    /\ dir_exists \in BOOLEAN
    /\ registry_exists = FALSE
    /\ registry = <<>>
    /\ lock = NoLock
    /\ atom_files = <<>>
    /\ atom_dirs = {}
    /\ ulids = 0
    /\ clock = 0
    /\ appended = {}
    /\ InitProcs

SpecMissingDir == InitMissingDir /\ [][NextAppend]_vars

\* C30: append_registry_entries does not fail when the parent directory of
\* the registry is missing: it makes the directory and the file and appends
\* the batch.
C30_MissingDirCreated ==
    \A p \in Procs :
        /\ pc[p] # "failed"
        /\ pc[p] = "done" => dir_exists /\ registry_exists /\ appended # {}

====
